---- MODULE Spec2Model ----
(***************************************************************************)
(* The OMR service of omr_service_real.py: the singleton OMRService with   *)
(* its initialize / scan_sheet_music lifecycle, StaffDetector.detect and   *)
(* OMRService._extract_symbols.                                            *)
(*                                                                         *)
(* Python values are modelled as records.  An object is a record with a    *)
(* "type" field, None is [type |-> "NoneType"], a dict is a record with    *)
(* exactly the dict's keys.  A computation that may raise is a record with *)
(* an "exc" field: NoExc when it completed, the exception's message        *)
(* otherwise.  Python indexes are 0-based, TLA+ sequences 1-based: element *)
(* i of a sequence is the element with Python index i - 1.                 *)
(***************************************************************************)
EXTENDS Integers, Sequences, FiniteSets, TLC

VARIABLES
    staff_detector,     \* OMRService.staff_detector
    symbol_recognizer,  \* OMRService.symbol_recognizer
    is_initialized,     \* OMRService.is_initialized
    op,                 \* the last operation called
    arg,                \* its arguments
    ret,                \* how it ended: [outcome, value]
    exc,                \* the exception raised inside its try block, or NoExc
    calls,              \* the collaborators it called, in order
    init_succeeded,     \* history: some initialize call has returned success
    host,               \* how the host runs overlapping scans: one loop or threads
    tensors,            \* the input and output tensor of each interpreter
    scans               \* the scan invocations in progress, one per caller

vars == <<staff_detector, symbol_recognizer, is_initialized, op, arg, ret, exc,
          calls, init_succeeded, host, tensors, scans>>

\* Where calls are made one at a time, each reads the tensors it has itself
\* set; the interpreters' tensors and the overlapping invocations are followed
\* in SpecConcurrent only.
NoOverlap == /\ host = "one_loop" /\ tensors = <<>> /\ scans = <<>>
OneAtATime == UNCHANGED <<host, tensors, scans>>

(***************************************************************************)
(* Bounds of the model.                                                    *)
(***************************************************************************)
MaxStaffs == 2
MaxBlobs == 2
MaxContours == 3
MaxSymbols == 3

(***************************************************************************)
(* Program constants.                                                      *)
(***************************************************************************)
StaffMinHeight == 20
SymbolMinSize == 5

(***************************************************************************)
(* Python values.                                                          *)
(***************************************************************************)
NoExc == ""
Idle == "idle"
NoRet == [outcome |-> "none"]
NoneObj == [type |-> "NoneType"]
NonePath == "<None>"
GoodStaffPath == "staff_detector.tflite"
GoodSymbolPath == "symbol_recognizer.tflite"
BadPath == "missing.tflite"
LoadError == "Could not open model file"
NotInitializedError == "OMR service not initialized"
NoDetectAttr == "'NoneType' object has no attribute 'detect'"
NoRecognizeAttr == "'NoneType' object has no attribute 'recognize'"
NoStaffsWarning == "No staffs detected in image"

\* Python truthiness of an optional string argument: None and "" are falsy.
Truthy(path) == path \notin {NonePath, ""}

\* tf.lite.Interpreter(model_path=...) raises when the file cannot be loaded.
LoadOk(path) == path \in {GoodStaffPath, GoodSymbolPath}

EmptyDict == [type |-> "dict", items |-> <<>>]
NoteDict == [type |-> "dict", items |-> (0 :> "note")]

\* class_mapping or {}
OrEmptyDict(class_mapping) ==
    IF class_mapping.type = "NoneType" \/ DOMAIN class_mapping.items = {}
    THEN EmptyDict
    ELSE class_mapping

StaffDetectorNew(model_path) ==
    IF LoadOk(model_path)
    THEN [exc |-> NoExc, obj |-> [type |-> "StaffDetector", model_path |-> model_path]]
    ELSE [exc |-> LoadError, obj |-> NoneObj]

SymbolRecognizerNew(model_path, class_mapping) ==
    IF LoadOk(model_path)
    THEN [exc |-> NoExc,
          obj |-> [type |-> "SymbolRecognizer", model_path |-> model_path,
                   class_mapping |-> class_mapping]]
    ELSE [exc |-> LoadError, obj |-> NoneObj]

\* The singleton's three fields, as one value.
Self == [staff_detector |-> staff_detector,
         symbol_recognizer |-> symbol_recognizer,
         is_initialized |-> is_initialized]

\* OMRService.__init__
InitFields == [staff_detector |-> NoneObj,
               symbol_recognizer |-> NoneObj,
               is_initialized |-> FALSE]

(***************************************************************************)
(* OMRService.initialize.                                                  *)
(***************************************************************************)
\* A faulty variant of InitializeTry: the readiness flag is set before the engines load.
InitializeTryFlagFirst(self, staff_model_path, symbol_model_path, class_mapping) ==
    LET a == IF Truthy(staff_model_path)
             THEN StaffDetectorNew(staff_model_path)
             ELSE [exc |-> NoExc, obj |-> self.staff_detector]
        b == IF Truthy(symbol_model_path)
             THEN SymbolRecognizerNew(symbol_model_path, OrEmptyDict(class_mapping))
             ELSE [exc |-> NoExc, obj |-> self.symbol_recognizer]
        s0 == [self EXCEPT !.is_initialized = TRUE]
    IN  IF a.exc # NoExc THEN [exc |-> a.exc, self |-> s0, value |-> NoneObj]
        ELSE IF b.exc # NoExc
        THEN [exc |-> b.exc, self |-> [s0 EXCEPT !.staff_detector = a.obj],
              value |-> NoneObj]
        ELSE [exc |-> NoExc,
              self |-> [s0 EXCEPT !.staff_detector = a.obj,
                                  !.symbol_recognizer = b.obj],
              value |-> [success |-> TRUE, message |-> "OMR service initialized"]]

\* A faulty variant of InitializeTry: a call without a symbol path clears the recognizer.
InitializeTryClearing(self, staff_model_path, symbol_model_path, class_mapping) ==
    LET a == IF Truthy(staff_model_path)
             THEN StaffDetectorNew(staff_model_path)
             ELSE [exc |-> NoExc, obj |-> self.staff_detector]
        b == IF Truthy(symbol_model_path)
             THEN SymbolRecognizerNew(symbol_model_path, OrEmptyDict(class_mapping))
             ELSE [exc |-> NoExc, obj |-> NoneObj]
    IN  IF a.exc # NoExc THEN [exc |-> a.exc, self |-> self, value |-> NoneObj]
        ELSE IF b.exc # NoExc
        THEN [exc |-> b.exc, self |-> [self EXCEPT !.staff_detector = a.obj],
              value |-> NoneObj]
        ELSE [exc |-> NoExc,
              self |-> [self EXCEPT !.staff_detector = a.obj,
                                    !.symbol_recognizer = b.obj,
                                    !.is_initialized = TRUE],
              value |-> [success |-> TRUE, message |-> "OMR service initialized"]]

\* The try block of initialize: the fields as it leaves them, and either the
\* value it returns or the exception it raises.
InitializeTry(self, staff_model_path, symbol_model_path, class_mapping) ==
    LET a == IF Truthy(staff_model_path)
             THEN StaffDetectorNew(staff_model_path)
             ELSE [exc |-> NoExc, obj |-> self.staff_detector]
        b == IF Truthy(symbol_model_path)
             THEN SymbolRecognizerNew(symbol_model_path, OrEmptyDict(class_mapping))
             ELSE [exc |-> NoExc, obj |-> self.symbol_recognizer]
    IN  IF a.exc # NoExc THEN [exc |-> a.exc, self |-> self, value |-> NoneObj]
        ELSE IF b.exc # NoExc
        THEN [exc |-> b.exc, self |-> [self EXCEPT !.staff_detector = a.obj],
              value |-> NoneObj]
        ELSE [exc |-> NoExc,
              self |-> [self EXCEPT !.staff_detector = a.obj,
                                    !.symbol_recognizer = b.obj,
                                    !.is_initialized = TRUE],
              value |-> [success |-> TRUE, message |-> "OMR service initialized"]]

\* A faulty variant of CatchException: the exception propagates to the caller.
CatchNothing(r) ==
    IF r.exc = NoExc
    THEN [outcome |-> "return", value |-> r.value]
    ELSE [outcome |-> "raise", value |-> [error |-> r.exc]]

\* except Exception as e: return {'success': False, 'error': str(e)}
CatchException(r) ==
    IF r.exc = NoExc
    THEN [outcome |-> "return", value |-> r.value]
    ELSE [outcome |-> "return", value |-> [success |-> FALSE, error |-> r.exc]]

InitializeArgs ==
    [staff_model_path : {NonePath, "", GoodStaffPath, BadPath},
     symbol_model_path : {NonePath, "", GoodSymbolPath, BadPath},
     class_mapping : {NoneObj, EmptyDict, NoteDict}]

Initialize ==
    /\ op = Idle
    /\ OneAtATime
    /\ \E a \in InitializeArgs :
        \E r \in {InitializeTry(Self, a.staff_model_path, a.symbol_model_path,
                                a.class_mapping)} :
            /\ staff_detector' = r.self.staff_detector
            /\ symbol_recognizer' = r.self.symbol_recognizer
            /\ is_initialized' = r.self.is_initialized
            /\ op' = "initialize"
            /\ arg' = a
            /\ ret' = CatchException(r)
            /\ exc' = r.exc
            /\ calls' = <<>>
            /\ init_succeeded' = (init_succeeded \/ r.exc = NoExc)

(***************************************************************************)
(* Images.  An image is described by what the external libraries return   *)
(* for it: the contours cv2.findContours finds in the engine's mask, each  *)
(* given by its cv2.boundingRect <<x, y, w, h>> in detection order; the    *)
(* ink blobs of the page, which are the contours cv2.findContours finds in *)
(* a thresholded crop; the mean of the engine's output; and the stage, if  *)
(* any, at which cv2 or the interpreter raises.  The numeric mask and the  *)
(* per-region mean taken from it are not carried.                          *)
(*                                                                         *)
(* A blob, and the crop cut around it, is [rect, nz, glyph, score]: rect   *)
(* is its bounding rectangle in the enclosing image, whose left column     *)
(* holds ink because it bounds a foreground contour; nz is the first       *)
(* column, counted inside the crop, holding a pixel of non-zero gray       *)
(* level, or NoNonZero when the crop is pure black; glyph and score are    *)
(* the arg-max class and its probability the classification engine gives   *)
(* for the crop.                                                           *)
(***************************************************************************)
NoNonZero == -1
DetectFault == "detect failed"
CropFault == "crop failed"
ExtractFault == "_extract_symbols failed"
RecognizeFault == "recognize failed"

BoundedSeq(S, n) == UNION {[1..k -> S] : k \in 0..n}

\* The rank of element i of s in Python's sorted(s, key=...): sorted is stable.
StableRank(keys, i) ==
    Cardinality({j \in DOMAIN keys :
                    keys[j] < keys[i] \/ (keys[j] = keys[i] /\ j <= i)})

\* sorted(s, key=...), given the keys of the elements of s.
Sorted(s, keys) ==
    [r \in 1..Len(s) |-> s[CHOOSE i \in 1..Len(s) : StableRank(keys, i) = r]]

(***************************************************************************)
(* StaffDetector.detect.                                                   *)
(***************************************************************************)
\* A faulty variant of KeepStaff: the filter keeps a height of exactly 20.
KeepStaffInclusive(bbox) == bbox[4] >= StaffMinHeight

\* if h_box > 20
KeepStaff(bbox) == bbox[4] > StaffMinHeight

\* A faulty variant of StaffKey: the regions are sorted by x.
StaffKeyX(s) == s.bbox[1]

\* key=lambda s: s['bbox'][1]
StaffKey(s) == s.bbox[2]

\* detect, after the engine has run: the staffs and the overall confidence.
\* A staff's 'contour' is the index of its contour in detection order.
Detect(image) ==
    LET found == [i \in 1..Len(image.contours) |->
                     [bbox |-> image.contours[i], contour |-> i]]
        staffs == SelectSeq(found, LAMBDA s : KeepStaff(s.bbox))
    IN  [staffs |-> Sorted(staffs, [i \in 1..Len(staffs) |-> StaffKey(staffs[i])]),
         confidence |-> image.confidence]

(***************************************************************************)
(* OMRService._extract_symbols.                                            *)
(***************************************************************************)
\* if w > 5 and h > 5
KeepSymbol(rect) == rect[3] > SymbolMinSize /\ rect[4] > SymbolMinSize

\* cv2.boundingRect(cv2.findNonZero(gray(s)))[0] if findNonZero(gray(s)) is
\* not None else 0: the first non-zero column, counted inside the crop s.
SymbolKey(s) == IF s.nz = NoNonZero THEN 0 ELSE s.nz

\* _extract_symbols: staff_image is given by the contours of its thresholded
\* grayscale, in cv2.findContours order.
ExtractSymbols(staff_image) ==
    LET symbols == SelectSeq(staff_image, LAMBDA c : KeepSymbol(c.rect))
    IN  Sorted(symbols, [i \in 1..Len(symbols) |-> SymbolKey(symbols[i])])

(***************************************************************************)
(* SymbolRecognizer.recognize.                                             *)
(***************************************************************************)
\* f'class_{class_idx}'
ClassName(class_idx) ==
    CASE class_idx = 0 -> "class_0"
      [] class_idx = 1 -> "class_1"
      [] OTHER -> "class_n"

\* self.class_mapping.get(class_idx, f'class_{class_idx}')
MappingGet(class_mapping, class_idx) ==
    IF class_idx \in DOMAIN class_mapping.items
    THEN class_mapping.items[class_idx]
    ELSE ClassName(class_idx)

\* recognize, after the engine has run ('all_predictions' is not carried).
Recognize(recognizer, symbol_image) ==
    [class |-> MappingGet(recognizer.class_mapping, symbol_image.glyph),
     class_id |-> symbol_image.glyph,
     confidence |-> symbol_image.score]

(***************************************************************************)
(* OMRService.scan_sheet_music.                                            *)
(***************************************************************************)
\* Whether a blob lies inside the rectangle bbox of the image.
Inside(blob, bbox) ==
    /\ bbox[1] <= blob.rect[1]
    /\ blob.rect[1] + blob.rect[3] <= bbox[1] + bbox[3]
    /\ bbox[2] <= blob.rect[2]
    /\ blob.rect[2] + blob.rect[4] <= bbox[2] + bbox[4]

\* image[y:y+h, x:x+w]: the blobs inside the rectangle, in crop coordinates.
Crop(image, bbox) ==
    LET inside == SelectSeq(image.blobs, LAMBDA b : Inside(b, bbox))
    IN  [i \in 1..Len(inside) |->
            [inside[i] EXCEPT !.rect = <<inside[i].rect[1] - bbox[1],
                                         inside[i].rect[2] - bbox[2],
                                         inside[i].rect[3],
                                         inside[i].rect[4]>>]]

\* symbol_img.size of a 3-channel crop
Size(symbol_image) == symbol_image.rect[3] * symbol_image.rect[4] * 3

\* A faulty variant of SymbolEntry: position_x is the symbol's pixel position.
SymbolEntryPixelX(recognizer, symbols, k) ==
    LET result == Recognize(recognizer, symbols[k])
    IN  [index |-> k - 1, type |-> result.class,
         confidence |-> result.confidence, position_x |-> symbols[k].rect[1]]

\* The entry appended for symbols[sym_idx], sym_idx = k - 1.
SymbolEntry(recognizer, symbols, k) ==
    LET result == Recognize(recognizer, symbols[k])
    IN  [index |-> k - 1, type |-> result.class,
         confidence |-> result.confidence, position_x |-> k - 1]

\* for sym_idx, symbol_img in enumerate(symbols): the measure of staff i from
\* its symbols, or the exception raised on the way, with the calls made.
RecognizeSymbols(self, image, i, symbols) ==
    LET kept == SelectSeq([k \in 1..Len(symbols) |-> k],
                          LAMBDA k : Size(symbols[k]) > 0)
    IN  IF kept = <<>>
        THEN [exc |-> NoExc, calls |-> <<"_extract_symbols">>,
              measure |-> [staff_id |-> i - 1, symbols |-> <<>>]]
        ELSE IF self.symbol_recognizer = NoneObj
        THEN [exc |-> NoRecognizeAttr, calls |-> <<"_extract_symbols">>]
        ELSE IF image.fault = "recognize"
        THEN [exc |-> RecognizeFault, calls |-> <<"_extract_symbols", "recognize">>]
        ELSE [exc |-> NoExc,
              calls |-> <<"_extract_symbols">> \o [k \in 1..Len(kept) |-> "recognize"],
              measure |-> [staff_id |-> i - 1,
                           symbols |-> [k \in 1..Len(kept) |->
                               SymbolEntry(self.symbol_recognizer, symbols, kept[k])]]]

\* One pass of the loop over the staffs: the measure of staffs[i], or the
\* exception raised on the way, with the collaborators called.
ScanStaff(self, image, staffs, i) ==
    IF image.fault = "crop"
    THEN [exc |-> CropFault, calls |-> <<>>]
    ELSE IF image.fault = "extract"
    THEN [exc |-> ExtractFault, calls |-> <<"_extract_symbols">>]
    ELSE RecognizeSymbols(self, image, i,
                          ExtractSymbols(Crop(image, staffs[i].bbox)))

RECURSIVE ScanLoop(_, _, _, _, _, _)
\* After the pass over staffs[i] has ended as r: measures.append(measure) and
\* the next pass, or the exception.
ScanNext(self, image, staffs, i, measures, called, r) ==
    IF r.exc # NoExc
    THEN [exc |-> r.exc, calls |-> called \o r.calls, measures |-> measures]
    ELSE ScanLoop(self, image, staffs, i + 1,
                  Append(measures, r.measure), called \o r.calls)

\* for staff_idx, staff in enumerate(staffs), from staffs[i] on.
ScanLoop(self, image, staffs, i, measures, called) ==
    IF i > Len(staffs)
    THEN [exc |-> NoExc, calls |-> called, measures |-> measures]
    ELSE ScanNext(self, image, staffs, i, measures, called,
                  ScanStaff(self, image, staffs, i))

\* The end of the try block, the loop having ended as loop.
ScanResult(detection_result, loop) ==
    IF loop.exc # NoExc
    THEN [exc |-> loop.exc, calls |-> loop.calls, value |-> NoneObj]
    ELSE [exc |-> NoExc, calls |-> loop.calls,
          value |-> [success |-> TRUE,
                     measures |-> loop.measures,
                     confidence |-> detection_result.confidence,
                     num_staffs |-> Len(detection_result.staffs)]]

\* A faulty variant of ScanDetected: a page without staffs is reported as a
\* failure.
ScanDetectedNoStaffsFails(self, image, detection_result) ==
    IF detection_result.staffs = <<>>
    THEN [exc |-> NoExc, calls |-> <<"detect">>,
          value |-> [success |-> FALSE, error |-> NoStaffsWarning]]
    ELSE ScanResult(detection_result,
                    ScanLoop(self, image, detection_result.staffs, 1, <<>>,
                             <<"detect">>))

\* The try block of scan_sheet_music once detect has returned.
ScanDetected(self, image, detection_result) ==
    IF detection_result.staffs = <<>>
    THEN [exc |-> NoExc, calls |-> <<"detect">>,
          value |-> [success |-> TRUE, measures |-> <<>>,
                     warning |-> NoStaffsWarning]]
    ELSE ScanResult(detection_result,
                    ScanLoop(self, image, detection_result.staffs, 1, <<>>,
                             <<"detect">>))

\* The try block of scan_sheet_music.
ScanTry(self, image) ==
    IF self.staff_detector = NoneObj
    THEN [exc |-> NoDetectAttr, calls |-> <<>>, value |-> NoneObj]
    ELSE IF image.fault = "detect"
    THEN [exc |-> DetectFault, calls |-> <<"detect">>, value |-> NoneObj]
    ELSE ScanDetected(self, image, Detect(image))

\* How a try block that ended as r ends the call: the value returned, the
\* exception caught, and the collaborators called.
Caught(r) == [ret |-> CatchException(r), exc |-> r.exc, calls |-> r.calls]

\* scan_sheet_music: how it ends, the exception caught inside it, and the
\* collaborators it called.
ScanSheetMusic(self, image) ==
    IF ~self.is_initialized
    THEN [ret |-> [outcome |-> "return",
                   value |-> [success |-> FALSE, error |-> NotInitializedError]],
          exc |-> NoExc, calls |-> <<>>]
    ELSE Caught(ScanTry(self, image))

ScanStaffRects == {<<0, y, 100, h>> : y \in {10, 50}, h \in {20, 21}}

ScanBlobs ==
    {[rect |-> <<x, y, 6, 6>>, nz |-> 0, glyph |-> IF x = 10 THEN 0 ELSE 1,
      score |-> 90] : x \in {10, 40}, y \in {12, 52}}

Faults == {"none", "detect", "crop", "extract", "recognize"}

ScanImages ==
    [contours : BoundedSeq(ScanStaffRects, MaxStaffs),
     blobs : BoundedSeq(ScanBlobs, MaxBlobs),
     confidence : {80},
     fault : Faults]

Scan ==
    /\ op = Idle
    /\ OneAtATime
    /\ \E image \in ScanImages :
        \E r \in {ScanSheetMusic(Self, image)} :
            /\ op' = "scan_sheet_music"
            /\ arg' = image
            /\ ret' = r.ret
            /\ exc' = r.exc
            /\ calls' = r.calls
            /\ UNCHANGED <<staff_detector, symbol_recognizer, is_initialized,
                           init_succeeded>>

(***************************************************************************)
(* OMRService() and get_omr_service().                                     *)
(***************************************************************************)
\* OMRService(): __new__ returns the one instance, then __init__ runs on it.
Construct ==
    /\ OneAtATime
    /\ op = Idle
    /\ staff_detector' = InitFields.staff_detector
    /\ symbol_recognizer' = InitFields.symbol_recognizer
    /\ is_initialized' = InitFields.is_initialized
    /\ op' = "OMRService"
    /\ arg' = NoneObj
    /\ ret' = [outcome |-> "return", value |-> [type |-> "OMRService"]]
    /\ exc' = NoExc
    /\ calls' = <<>>
    /\ UNCHANGED init_succeeded

\* get_omr_service(): returns the module's _omr_service.
GetOmrService ==
    /\ OneAtATime
    /\ op = Idle
    /\ op' = "get_omr_service"
    /\ arg' = NoneObj
    /\ ret' = [outcome |-> "return", value |-> [type |-> "OMRService"]]
    /\ exc' = NoExc
    /\ calls' = <<>>
    /\ UNCHANGED <<staff_detector, symbol_recognizer, is_initialized, init_succeeded>>

\* Between two calls: the caller has taken the last call's result, and the
\* record of that call is cleared.  The service is left as it is.
Resume ==
    /\ OneAtATime
    /\ op # Idle
    /\ op' = Idle
    /\ arg' = NoneObj
    /\ ret' = NoRet
    /\ exc' = NoExc
    /\ calls' = <<>>
    /\ UNCHANGED <<staff_detector, symbol_recognizer, is_initialized, init_succeeded>>

\* The module's import: _omr_service = OMRService().
Init ==
    /\ NoOverlap
    /\ staff_detector = InitFields.staff_detector
    /\ symbol_recognizer = InitFields.symbol_recognizer
    /\ is_initialized = InitFields.is_initialized
    /\ op = Idle
    /\ arg = NoneObj
    /\ ret = NoRet
    /\ exc = NoExc
    /\ calls = <<>>
    /\ init_succeeded = FALSE

Next == Initialize \/ Construct \/ GetOmrService \/ Scan \/ Resume

Spec == Init /\ [][Next]_vars

(***************************************************************************)
(* StaffDetector.detect on its own: the contours of one image are drawn    *)
(* at the start and detect is applied to them.                             *)
(***************************************************************************)
DetectRects == {<<0, y, 100, h>> : y \in {0, 30, 60}, h \in {19, 20, 21}}

DetectImages ==
    [contours : BoundedSeq(DetectRects, MaxContours),
     blobs : {<<>>},
     confidence : {80},
     fault : {"none"}]

InitDetect ==
    /\ NoOverlap
    /\ staff_detector = StaffDetectorNew(GoodStaffPath).obj
    /\ symbol_recognizer = NoneObj
    /\ is_initialized = TRUE
    /\ op = "detect.call"
    /\ arg \in DetectImages
    /\ ret = NoRet
    /\ exc = NoExc
    /\ calls = <<>>
    /\ init_succeeded = TRUE

DetectCall ==
    /\ OneAtATime
    /\ op = "detect.call"
    /\ op' = "detect"
    /\ ret' = [outcome |-> "return", value |-> Detect(arg)]
    /\ UNCHANGED <<staff_detector, symbol_recognizer, is_initialized, arg, exc,
                   calls, init_succeeded>>

SpecDetect == InitDetect /\ [][DetectCall]_vars

(***************************************************************************)
(* OMRService._extract_symbols on its own: the contours of one staff crop  *)
(* are drawn at the start and _extract_symbols is applied to them.         *)
(***************************************************************************)
SymbolContours ==
    {[rect |-> <<x, 2, w, 6>>, nz |-> nz, glyph |-> 0, score |-> 90] :
        x \in {0, 8, 16}, w \in {5, 6}, nz \in {NoNonZero, 0, 1}}
    \cup {[rect |-> <<8, 2, 6, 5>>, nz |-> 0, glyph |-> 0, score |-> 90]}

InitExtract ==
    /\ NoOverlap
    /\ staff_detector = StaffDetectorNew(GoodStaffPath).obj
    /\ symbol_recognizer = NoneObj
    /\ is_initialized = TRUE
    /\ op = "_extract_symbols.call"
    /\ arg \in BoundedSeq(SymbolContours, MaxSymbols)
    /\ ret = NoRet
    /\ exc = NoExc
    /\ calls = <<>>
    /\ init_succeeded = TRUE

ExtractCall ==
    /\ OneAtATime
    /\ op = "_extract_symbols.call"
    /\ op' = "_extract_symbols"
    /\ ret' = [outcome |-> "return", value |-> ExtractSymbols(arg)]
    /\ UNCHANGED <<staff_detector, symbol_recognizer, is_initialized, arg, exc,
                   calls, init_succeeded>>

SpecExtract == InitExtract /\ [][ExtractCall]_vars

(***************************************************************************)
(* Properties.                                                             *)
(***************************************************************************)
Range(s) == {s[i] : i \in DOMAIN s}

NotInitializedResult ==
    [outcome |-> "return",
     value |-> [success |-> FALSE, error |-> NotInitializedError]]

\* C1: while no initialize call has succeeded (none was made, or all failed),
\* scan_sheet_music returns success=false with the "not initialized" error
\* and calls neither the staff detector nor the symbol recognizer.
C1_ScanBeforeInitialize ==
    (op = "scan_sheet_music" /\ ~init_succeeded) =>
        /\ ret = NotInitializedResult
        /\ "detect" \notin Range(calls)
        /\ "recognize" \notin Range(calls)

\* C1's case: a scan after an initialize that loaded the staff engine and then
\* failed on the symbol engine.
C1_Witness ==
    /\ op = "scan_sheet_music"
    /\ ~init_succeeded
    /\ staff_detector # NoneObj
    /\ arg.contours # <<>>

\* Whether loading an engine that initialize was given fails.
LoadFails(a) ==
    \/ Truthy(a.staff_model_path) /\ ~LoadOk(a.staff_model_path)
    \/ Truthy(a.symbol_model_path) /\ ~LoadOk(a.symbol_model_path)

\* C2: an initialize call in which loading a supplied engine fails returns
\* {success: false, error} without raising, and the service is not ready
\* afterwards (is_initialized is false).
C2_FailedInitializeNotReady ==
    (op = "initialize" /\ LoadFails(arg)) =>
        /\ ret.outcome = "return"
        /\ ret.value = [success |-> FALSE, error |-> LoadError]
        /\ ~is_initialized

\* C3: scan_sheet_music never raises: it returns a value in every service
\* state, and when a step inside it fails the value is success=false with
\* the failure's message as error.
C3_ScanNeverRaises ==
    op = "scan_sheet_music" =>
        /\ ret.outcome = "return"
        /\ exc # NoExc => ret.value = [success |-> FALSE, error |-> exc]

\* C3's case: the service is ready without a symbol engine and a scan reaches
\* the classification of a symbol.
C3_Witness ==
    /\ op = "scan_sheet_music"
    /\ is_initialized
    /\ staff_detector # NoneObj
    /\ symbol_recognizer = NoneObj
    /\ exc = NoRecognizeAttr
    /\ ret.outcome = "return"

\* C4: when the service is ready and the staff detector returns no region,
\* scan_sheet_music returns success=true, measures=[] and a non-empty warning,
\* and calls neither the segmenter nor the recognizer.
C4_NoStaffs ==
    ( /\ op = "scan_sheet_music"
      /\ is_initialized
      /\ staff_detector # NoneObj
      /\ arg.fault # "detect"
      /\ \A i \in DOMAIN arg.contours : arg.contours[i][4] <= 20 ) =>
        /\ ret.outcome = "return"
        /\ ret.value.success = TRUE
        /\ ret.value.measures = <<>>
        /\ "warning" \in DOMAIN ret.value
        /\ ret.value.warning # ""
        /\ "_extract_symbols" \notin Range(calls)
        /\ "recognize" \notin Range(calls)

\* C4's case: a ready service scans a page whose only contours are of height
\* 20, and the page holds ink.
C4_Witness ==
    /\ op = "scan_sheet_music"
    /\ is_initialized
    /\ staff_detector # NoneObj
    /\ arg.fault = "none"
    /\ arg.contours # <<>>
    /\ arg.blobs # <<>>
    /\ \A i \in DOMAIN arg.contours : arg.contours[i][4] <= 20
    /\ calls = <<"detect">>

\* An initialize call with a loadable staff path and no symbol path.
StaffOnly(a) ==
    /\ a.staff_model_path = GoodStaffPath
    /\ a.symbol_model_path \in {NonePath, ""}

\* C5, as amended: initialize with only a loadable staff path returns
\* success=true, sets the service ready with that staff detector, and leaves
\* the symbol recognizer as it was before the call: None when none was
\* loaded, the earlier recognizer otherwise.
C5_StaffOnlyInitialize ==
    [][ (op' = "initialize" /\ op = Idle /\ StaffOnly(arg')) =>
            /\ ret'.outcome = "return"
            /\ ret'.value.success = TRUE
            /\ is_initialized'
            /\ staff_detector' = [type |-> "StaffDetector",
                                  model_path |-> arg'.staff_model_path]
            /\ symbol_recognizer' = symbol_recognizer ]_vars

\* C5's case: a staff-only initialize has returned on a service that held a
\* symbol recognizer.
C5_Witness ==
    /\ op = "initialize"
    /\ StaffOnly(arg)
    /\ ret.value.success = TRUE
    /\ symbol_recognizer # NoneObj

\* C5 as stated: after initialize with only a loadable staff path the call
\* has succeeded, the service is ready with the staff detector, and the
\* symbol recognizer is None.
C5_RecognizerAbsent ==
    (op = "initialize" /\ StaffOnly(arg)) =>
        /\ ret.value.success = TRUE
        /\ is_initialized
        /\ staff_detector # NoneObj
        /\ symbol_recognizer = NoneObj

\* The regions the staff detector returns for the scanned image.
ScannedStaffs == Detect(arg).staffs

\* The symbols of region i of the scanned image, in segmentation order.
Segmented(i) == ExtractSymbols(Crop(arg, ScannedStaffs[i].bbox))

\* C6: a successful scan over n >= 1 regions returns n measures; measure i
\* has staff_id i and is built from region i in ascending-y order; its
\* symbols are in segmentation order, each with position_x equal to its
\* ordinal index in the staff.
C6_MeasuresFollowRegions ==
    ( /\ op = "scan_sheet_music"
      /\ ret.value.success = TRUE
      /\ \E i \in DOMAIN arg.contours : arg.contours[i][4] > 20 ) =>
        LET measures == ret.value.measures
            n == Cardinality({i \in DOMAIN arg.contours : arg.contours[i][4] > 20})
        IN  /\ Len(measures) = n
            /\ \A i \in 1..n :
                /\ measures[i].staff_id = i - 1
                /\ i < n => ScannedStaffs[i].bbox[2] <= ScannedStaffs[i + 1].bbox[2]
                /\ Len(measures[i].symbols) = Len(Segmented(i))
                /\ \A k \in 1..Len(Segmented(i)) :
                    /\ measures[i].symbols[k].index = k - 1
                    /\ measures[i].symbols[k].position_x = k - 1
                    /\ measures[i].symbols[k].type =
                           MappingGet(symbol_recognizer.class_mapping,
                                      Segmented(i)[k].glyph)
                    /\ measures[i].symbols[k].confidence = Segmented(i)[k].score

\* C6's case: a scan has returned two measures, the lower region detected
\* first, and one staff holds two symbols of different types.
C6_Witness ==
    /\ op = "scan_sheet_music"
    /\ ret.value.success = TRUE
    /\ "num_staffs" \in DOMAIN ret.value
    /\ Len(ret.value.measures) = 2
    /\ arg.contours[1][2] > arg.contours[2][2]
    /\ \E i \in 1..2 :
        /\ Len(ret.value.measures[i].symbols) = 2
        /\ ret.value.measures[i].symbols[1].type
               # ret.value.measures[i].symbols[2].type

\* C7: the staffs detect returns are sorted by non-decreasing y, and two
\* staffs of equal y keep their detection (contour) order.
C7_StaffsSortedStable ==
    op = "detect" =>
        LET staffs == ret.value.staffs
        IN  \A i, j \in DOMAIN staffs :
                i < j =>
                    /\ staffs[i].bbox[2] <= staffs[j].bbox[2]
                    /\ staffs[i].bbox[2] = staffs[j].bbox[2]
                           => staffs[i].contour < staffs[j].contour

\* C7's case: detect has returned three staffs, two of them of equal y, in an
\* order other than the detection order.
C7_Witness ==
    /\ op = "detect"
    /\ Len(ret.value.staffs) = 3
    /\ ret.value.staffs[1].contour > ret.value.staffs[2].contour
    /\ ret.value.staffs[2].bbox[2] = ret.value.staffs[3].bbox[2]

\* C8: every staff detect returns has height > 20 and every contour of
\* height > 20 is returned: height 21 is kept, height 20 is dropped.
C8_HeightFilter ==
    op = "detect" =>
        LET staffs == ret.value.staffs
            returned(i) == \E k \in DOMAIN staffs :
                               /\ staffs[k].contour = i
                               /\ staffs[k].bbox = arg.contours[i]
        IN  /\ \A k \in DOMAIN staffs : staffs[k].bbox[4] > 20
            /\ \A i \in DOMAIN arg.contours :
                /\ arg.contours[i][4] > 20 => returned(i)
                /\ arg.contours[i][4] = 21 => returned(i)
                /\ arg.contours[i][4] = 20 => ~returned(i)
            /\ Len(staffs) =
                   Cardinality({i \in DOMAIN arg.contours : arg.contours[i][4] > 20})

\* C8's case: detect has run on contours of heights 20 and 21 and returned
\* one staff.
C8_Witness ==
    /\ op = "detect"
    /\ \E i, j \in DOMAIN arg.contours :
        arg.contours[i][4] = 20 /\ arg.contours[j][4] = 21
    /\ Len(ret.value.staffs) = 1

\* C9: the crops _extract_symbols returns are ordered by non-decreasing x,
\* measured in the staff crop, of their leftmost ink column.  A crop bounds a
\* foreground contour, so its leftmost ink column is its rectangle's left
\* edge, rect[1].
C9_SymbolsLeftToRight ==
    op = "_extract_symbols" =>
        \A i, j \in DOMAIN ret.value :
            i < j => ret.value[i].rect[1] <= ret.value[j].rect[1]

\* C10: no operation other than initialize changes staff_detector,
\* symbol_recognizer or is_initialized.
C10_OnlyInitializeWrites ==
    [][ op' # "initialize" =>
            UNCHANGED <<staff_detector, symbol_recognizer, is_initialized>> ]_vars

(***************************************************************************)
(* Overlapping scans on the shared service.  scan_sheet_music is a         *)
(* coroutine without an await: two invocations on one event loop run one   *)
(* after the other, and they overlap only when the host runs them on       *)
(* different threads (a loop per thread, or an executor).  The service     *)
(* holds one interpreter per engine and no lock.  Each invocation is       *)
(* followed through its interpreter calls, which are the steps a thread    *)
(* switch can separate; a page holds one staff with one symbol, so an      *)
(* invocation runs detect once and recognize once.                         *)
(*                                                                         *)
(* A tensor is kept symbolic: an input is [image, region], the page it was *)
(* cut from and the page whose segmentation placed the cut ("-" for the    *)
(* whole page); an output is [of |-> input], the interpreter's result for  *)
(* that input.                                                             *)
(***************************************************************************)
MaxScans == 2

Callers == 1..MaxScans
Pages == {"page_a", "page_b"}
Engines == {"staff", "symbol"}
UnsetInput == [image |-> "unset", region |-> "-"]

\* interpreter.invoke(): the output tensor for the input tensor now set.
Run(input) == [of |-> input]

\* The tensors after allocate_tensors().
AllocatedTensors ==
    [e \in Engines |-> [input |-> UnsetInput, output |-> Run(UnsetInput)]]

\* Whether caller t's invocation may take its next step: always on its own
\* thread; on one event loop only while no other invocation has started and
\* not yet returned, since the coroutine never yields.
MayRun(t) ==
    \/ host = "threads"
    \/ \A u \in Callers \ {t} : scans[u].pc \in {"call", "return"}

\* The sequential service is left as it is by the steps of an invocation.
ServiceUnchanged ==
    UNCHANGED <<staff_detector, symbol_recognizer, is_initialized, op, arg, ret,
                exc, calls, init_succeeded, host>>

\* scan_sheet_music up to the call of detect: the readiness check passes.
ScanStart(t) ==
    /\ scans[t].pc = "call"
    /\ MayRun(t)
    /\ is_initialized
    /\ scans' = [scans EXCEPT ![t].pc = "detect.set_tensor"]
    /\ UNCHANGED tensors
    /\ ServiceUnchanged

\* detect: self.interpreter.set_tensor(input index, the preprocessed image)
DetectSetTensor(t) ==
    /\ scans[t].pc = "detect.set_tensor"
    /\ MayRun(t)
    /\ tensors' = [tensors EXCEPT !.staff.input =
                       [image |-> scans[t].image, region |-> "-"]]
    /\ scans' = [scans EXCEPT ![t].pc = "detect.invoke"]
    /\ ServiceUnchanged

\* detect: self.interpreter.invoke()
DetectInvoke(t) ==
    /\ scans[t].pc = "detect.invoke"
    /\ MayRun(t)
    /\ tensors' = [tensors EXCEPT !.staff.output = Run(tensors.staff.input)]
    /\ scans' = [scans EXCEPT ![t].pc = "detect.get_tensor"]
    /\ ServiceUnchanged

\* detect: segmentation = self.interpreter.get_tensor(output index)[0]
DetectGetTensor(t) ==
    /\ scans[t].pc = "detect.get_tensor"
    /\ MayRun(t)
    /\ scans' = [scans EXCEPT ![t].segmentation = tensors.staff.output,
                              ![t].pc = "recognize.set_tensor"]
    /\ UNCHANGED tensors
    /\ ServiceUnchanged

\* recognize: self.interpreter.set_tensor(input index, the symbol crop); the
\* crop is cut from the caller's image where the segmentation it got puts
\* the staff.
RecognizeSetTensor(t) ==
    /\ scans[t].pc = "recognize.set_tensor"
    /\ MayRun(t)
    /\ tensors' = [tensors EXCEPT !.symbol.input =
                       [image |-> scans[t].image,
                        region |-> scans[t].segmentation.of.image]]
    /\ scans' = [scans EXCEPT ![t].pc = "recognize.invoke"]
    /\ ServiceUnchanged

\* recognize: self.interpreter.invoke()
RecognizeInvoke(t) ==
    /\ scans[t].pc = "recognize.invoke"
    /\ MayRun(t)
    /\ tensors' = [tensors EXCEPT !.symbol.output = Run(tensors.symbol.input)]
    /\ scans' = [scans EXCEPT ![t].pc = "recognize.get_tensor"]
    /\ ServiceUnchanged

\* recognize: predictions = self.interpreter.get_tensor(output index)[0],
\* after which scan_sheet_music builds its result and returns.
RecognizeGetTensor(t) ==
    /\ scans[t].pc = "recognize.get_tensor"
    /\ MayRun(t)
    /\ scans' = [scans EXCEPT ![t].predictions = tensors.symbol.output,
                              ![t].pc = "return"]
    /\ UNCHANGED tensors
    /\ ServiceUnchanged

\* A ready service with both engines, and one invocation per caller about to
\* be made.
InitConcurrent ==
    /\ staff_detector = StaffDetectorNew(GoodStaffPath).obj
    /\ symbol_recognizer = SymbolRecognizerNew(GoodSymbolPath, EmptyDict).obj
    /\ is_initialized = TRUE
    /\ op = Idle
    /\ arg = NoneObj
    /\ ret = NoRet
    /\ exc = NoExc
    /\ calls = <<>>
    /\ init_succeeded = TRUE
    /\ host \in {"one_loop", "threads"}
    /\ tensors = AllocatedTensors
    /\ scans \in [Callers -> [pc : {"call"}, image : Pages,
                              segmentation : {Run(UnsetInput)},
                              predictions : {Run(UnsetInput)}]]

NextConcurrent ==
    \E t \in Callers :
        \/ ScanStart(t)
        \/ DetectSetTensor(t)
        \/ DetectInvoke(t)
        \/ DetectGetTensor(t)
        \/ RecognizeSetTensor(t)
        \/ RecognizeInvoke(t)
        \/ RecognizeGetTensor(t)

SpecConcurrent == InitConcurrent /\ [][NextConcurrent]_vars

\* Whether caller t is inside its set_tensor / invoke / get_tensor sequence on
\* the interpreter of engine e: it has set the input and not yet read the
\* output.
InSequence(t, e) ==
    \/ e = "staff" /\ scans[t].pc \in {"detect.invoke", "detect.get_tensor"}
    \/ e = "symbol" /\ scans[t].pc \in {"recognize.invoke", "recognize.get_tensor"}

\* C11: when scan invocations overlap, access to each engine is serialized:
\* no two invocations are inside their set_tensor / invoke / get_tensor
\* sequence on the same engine at once, and every get_tensor has returned the
\* output computed from the input the same invocation set.
C11_EngineAccessSerialized ==
    /\ \A t, u \in Callers : \A e \in Engines :
           t # u => ~(InSequence(t, e) /\ InSequence(u, e))
    /\ \A t \in Callers :
        /\ scans[t].pc \in {"recognize.set_tensor", "recognize.invoke",
                            "recognize.get_tensor", "return"}
               => scans[t].segmentation.of.image = scans[t].image
        /\ scans[t].pc = "return"
               => scans[t].predictions.of.image = scans[t].image

(***************************************************************************)
(* StaffDetector.detect from the engine's output on, with its numbers.     *)
(* The engine's output has its own size (the model's output shape), the    *)
(* image has another.  A probability is kept in percent, a mean as the     *)
(* pair [sum, count] of the values averaged, so that means are compared    *)
(* exactly; np.mean of an empty slice, nan, is the pair with count 0.      *)
(* Every row of a page is uniform across its width, so an array is given   *)
(* by its rows, and a page holds one band of staff rows, so findContours   *)
(* reports at most one contour, as wide as the image.  Rows and columns    *)
(* are counted from 0 as in the code; sequences hold row r at r + 1.       *)
(***************************************************************************)
Threshold == 50

\* The sum of rows lo .. hi - 1 of the array.
RECURSIVE SumRows(_, _, _)
SumRows(rows, lo, hi) ==
    IF lo >= hi THEN 0 ELSE rows[lo + 1] + SumRows(rows, lo + 1, hi)

\* A Python slice bound on an axis of length n.
Clamp(i, n) == IF i > n THEN n ELSE i

\* np.mean(array[y:y+h, x:x+w]) of an array with the given rows and cols
\* columns.
SliceMean(rows, cols, x, y, w, h) ==
    LET r0 == Clamp(y, Len(rows))
        r1 == Clamp(y + h, Len(rows))
        c0 == Clamp(x, cols)
        c1 == Clamp(x + w, cols)
    IN  [sum |-> (c1 - c0) * SumRows(rows, r0, r1),
         count |-> (c1 - c0) * (r1 - r0)]

\* mask = (segmentation[:, :, 0] > 0.5).astype(np.uint8)
Mask(segmentation) ==
    [i \in 1..Len(segmentation) |-> IF segmentation[i] > Threshold THEN 1 ELSE 0]

\* cv2.resize(..., interpolation=cv2.INTER_NEAREST): the source row of
\* destination row r, for n source rows and h destination rows.
NearestRow(r, h, n) ==
    LET i == (r * n) \div h IN IF i > n - 1 THEN n - 1 ELSE i

\* cv2.resize(mask, (w, h), interpolation=cv2.INTER_NEAREST)
Resize(rows, h) == [r \in 1..h |-> rows[NearestRow(r - 1, h, Len(rows)) + 1]]

\* cv2.findContours(mask, RETR_EXTERNAL, ...) and cv2.boundingRect of each:
\* the bounding boxes of the maximal runs of set rows.
ContourBoxes(mask, width) ==
    LET starts == {r \in 1..Len(mask) :
                      mask[r] = 1 /\ (r = 1 \/ mask[r - 1] = 0)}
        End(s) == CHOOSE e \in s..Len(mask) :
                      /\ \A r \in s..e : mask[r] = 1
                      /\ e = Len(mask) \/ mask[e + 1] = 0
        Boxes[S \in SUBSET starts] ==
            IF S = {} THEN <<>>
            ELSE LET s == CHOOSE m \in S : \A k \in S : m >= k
                 IN  <<<<0, s - 1, width, End(s) - s + 1>>>> \o Boxes[S \ {s}]
    IN  Boxes[starts]

\* detect from "Post-process" on, for an image of the given height and width
\* and the engine output [rows, cols].
DetectSegmentation(image, output) ==
    LET mask == Resize(Mask(output.rows), image.height)
        boxes == ContourBoxes(mask, image.width)
        found == [i \in 1..Len(boxes) |->
                     [bbox |-> boxes[i],
                      confidence |-> SliceMean(output.rows, output.cols,
                                               boxes[i][1], boxes[i][2],
                                               boxes[i][3], boxes[i][4]),
                      contour |-> i]]
        staffs == SelectSeq(found, LAMBDA s : KeepStaff(s.bbox))
    IN  [staffs |-> Sorted(staffs, [i \in 1..Len(staffs) |-> StaffKey(staffs[i])]),
         segmentation_mask |-> mask,
         confidence |-> SliceMean(output.rows, output.cols, 0, 0,
                                  output.cols, Len(output.rows))]

\* Engine outputs with one band of staff rows between background rows.
Band(n, start, len, inside, outside) ==
    [i \in 1..n |-> IF i - 1 >= start /\ i - 1 < start + len
                    THEN inside ELSE outside]

SegmentationInputs ==
    {[image |-> [height |-> h, width |-> 100],
      output |-> [rows |-> Band(n, start, len, inside, outside), cols |-> n]] :
         h \in {24, 48}, n \in {24, 48}, start \in {0, 2, 13},
         len \in {11, 22, 44}, inside \in {60, 100}, outside \in {0, 40}}

InitConfidence ==
    /\ NoOverlap
    /\ staff_detector = StaffDetectorNew(GoodStaffPath).obj
    /\ symbol_recognizer = NoneObj
    /\ is_initialized = TRUE
    /\ op = "detect.segmentation.call"
    /\ arg \in SegmentationInputs
    /\ ret = NoRet
    /\ exc = NoExc
    /\ calls = <<>>
    /\ init_succeeded = TRUE

DetectSegmentationCall ==
    /\ OneAtATime
    /\ op = "detect.segmentation.call"
    /\ op' = "detect.segmentation"
    /\ ret' = [outcome |-> "return",
               value |-> DetectSegmentation(arg.image, arg.output)]
    /\ UNCHANGED <<staff_detector, symbol_recognizer, is_initialized, arg, exc,
                   calls, init_succeeded>>

SpecConfidence == InitConfidence /\ [][DetectSegmentationCall]_vars

\* The mean of the probability mask, brought to the image's size like the
\* binary mask is, over the rows of a bounding box.
BoxMean(image, output, bbox) ==
    LET probability == Resize(output.rows, image.height)
    IN  [sum |-> SumRows(probability, bbox[2], bbox[2] + bbox[4]),
         count |-> bbox[4]]

\* C12: for every staff region detect returns, whatever the image size and
\* the engine output size, the region's confidence is the mean of the
\* probability mask over exactly the pixels of its bounding box, both taken
\* in the coordinates of the original image, and so it lies in [0,1].
C12_RegionConfidenceIsBoxMean ==
    op = "detect.segmentation" =>
        \A s \in Range(ret.value.staffs) :
            LET mean == BoxMean(arg.image, arg.output, s.bbox)
            IN  /\ s.confidence.count > 0
                /\ s.confidence.sum * mean.count = mean.sum * s.confidence.count
                /\ s.confidence.sum >= 0
                /\ s.confidence.sum <= 100 * s.confidence.count
====
